---- MODULE Spec2Model ----
(***************************************************************************)
(* pmemkv-python: the CPython extension type pmemkv_NI (kvengine.cc).      *)
(*                                                                         *)
(* The model follows one interpreter thread driving one wrapper object:    *)
(* module initialisation, start/stop, the CRUD/count operations (each one  *)
(* atomic native call) and the callback-taking operations, whose native    *)
(* call is followed step by step: the engine invokes the bridge, the       *)
(* bridge invokes the host callable, the callable returns or raises, the   *)
(* native call returns and the wrapper builds the result.                  *)
(*                                                                         *)
(* libpmemkv itself is outside the repository: it is modelled as a sorted  *)
(* volatile store honouring its documented C contract (the entries live    *)
(* and die with the engine instance), which may also fail with any status. *)
(***************************************************************************)
EXTENDS Integers, Sequences, FiniteSets, TLC

\* ------------------------------------------------------------------ bounds
NumKeys == 3
MaxOpens == 1

\* ------------------------------------------------------------ status codes
PMEMKV_STATUS_OK == 0
PMEMKV_STATUS_UNKNOWN_ERROR == 1
PMEMKV_STATUS_NOT_FOUND == 2
PMEMKV_STATUS_NOT_SUPPORTED == 3
PMEMKV_STATUS_INVALID_ARGUMENT == 4
PMEMKV_STATUS_CONFIG_PARSING_ERROR == 5
PMEMKV_STATUS_CONFIG_TYPE_ERROR == 6
PMEMKV_STATUS_STOPPED_BY_CB == 7
PMEMKV_STATUS_OUT_OF_MEMORY == 8
PMEMKV_STATUS_WRONG_ENGINE_NAME == 9
PMEMKV_STATUS_TRANSACTION_SCOPE_ERROR == 10

\* A status code the table has no entry for (the status space of a newer engine).
UnlistedStatus == PMEMKV_STATUS_TRANSACTION_SCOPE_ERROR + 1

TableCodes ==
    { PMEMKV_STATUS_UNKNOWN_ERROR, PMEMKV_STATUS_NOT_FOUND,
      PMEMKV_STATUS_NOT_SUPPORTED, PMEMKV_STATUS_INVALID_ARGUMENT,
      PMEMKV_STATUS_CONFIG_PARSING_ERROR, PMEMKV_STATUS_CONFIG_TYPE_ERROR,
      PMEMKV_STATUS_STOPPED_BY_CB, PMEMKV_STATUS_OUT_OF_MEMORY,
      PMEMKV_STATUS_WRONG_ENGINE_NAME, PMEMKV_STATUS_TRANSACTION_SCOPE_ERROR }

\* Every status a native call may hand back.
AllStatuses == {PMEMKV_STATUS_OK} \cup TableCodes \cup {UnlistedStatus}

\* ------------------------------------------------------- host-side objects
\* A NULL PyObject*: also the value of the error indicator when no error is
\* pending (PyErr_Occurred() == NULL).
PyNULL == "NULL"
PyExc_KeyError == "KeyError"
PyExc_MemoryError == "MemoryError"
PyExc_UnicodeDecodeError == "UnicodeDecodeError"
\* Whatever exception the host callable raises by itself.
HostFailure == "HostCallableError"
\* The root exception created by module initialisation.
PmemkvExceptionName == "pmemkv_NI.PmemkvException"

\* The static initialiser of the table: exception object and registered name.
StaticDispatcher ==
    [c \in TableCodes |->
        CASE c = PMEMKV_STATUS_UNKNOWN_ERROR ->
               [exception |-> PyNULL, exception_name |-> "pmemkv_NI.UnknownError"]
          [] c = PMEMKV_STATUS_NOT_FOUND ->
               [exception |-> PyExc_KeyError, exception_name |-> PyNULL]
          [] c = PMEMKV_STATUS_NOT_SUPPORTED ->
               [exception |-> PyNULL, exception_name |-> "pmemkv_NI.NotSupported"]
          [] c = PMEMKV_STATUS_INVALID_ARGUMENT ->
               [exception |-> PyNULL, exception_name |-> "pmemkv_NI.InvalidArgument"]
          [] c = PMEMKV_STATUS_CONFIG_PARSING_ERROR ->
               [exception |-> PyNULL, exception_name |-> "pmemkv_NI.ConfigParsingError"]
          [] c = PMEMKV_STATUS_CONFIG_TYPE_ERROR ->
               [exception |-> PyNULL, exception_name |-> "pmemkv_NI.ConfigTypeError"]
          [] c = PMEMKV_STATUS_STOPPED_BY_CB ->
               [exception |-> PyNULL, exception_name |-> "pmemkv_NI.StoppedByCallback"]
          [] c = PMEMKV_STATUS_OUT_OF_MEMORY ->
               [exception |-> PyExc_MemoryError, exception_name |-> PyNULL]
          [] c = PMEMKV_STATUS_WRONG_ENGINE_NAME ->
               [exception |-> PyNULL, exception_name |-> "pmemkv_NI.WrongEngineName"]
          [] OTHER ->
               [exception |-> PyNULL, exception_name |-> "pmemkv_NI.TransactionScopeError"]]

\* A value-initialised Exception, as std::unordered_map::operator[] inserts it.
DefaultException == [exception |-> PyNULL, exception_name |-> PyNULL]

\* A faulty variant of the registration loop: the exception pointer of every
\* entry is overwritten, whether it was NULL or not.
RegisterExceptions_replacesAll(table) ==
    [c \in DOMAIN table |->
        [table[c] EXCEPT !.exception = table[c].exception_name]]

\* The loop of PyInit__pmemkv: PyErr_NewExceptionWithDoc for every entry whose
\* exception pointer is still NULL; the exception object is identified by its name.
RegisterExceptions(table) ==
    [c \in DOMAIN table |->
        IF table[c].exception = PyNULL
        THEN [table[c] EXCEPT !.exception = table[c].exception_name]
        ELSE table[c]]

\* The classes that loop asks the host runtime to create, one
\* PyErr_NewExceptionWithDoc(exception_name, docstring, PmemkvException, NULL)
\* for each entry it finds with a NULL exception pointer; codes lists the
\* entries in the order the loop meets them.
RECURSIVE CreatedByLoop(_, _, _)
CreatedByLoop(table, codes, root) ==
    IF codes = <<>> THEN <<>>
    ELSE LET c == Head(codes)
             rest == CreatedByLoop(table, Tail(codes), root)
         IN  IF table[c].exception = PyNULL
             THEN <<[name |-> table[c].exception_name, base |-> root]>> \o rest
             ELSE rest

\* The entries of a table, by ascending key.
RECURSIVE CodesOf(_)
CodesOf(S) ==
    IF S = {} THEN <<>>
    ELSE LET c == CHOOSE x \in S : \A y \in S : x <= y
         IN  <<c>> \o CodesOf(S \ {c})

\* ExceptionDispatcher[code]: operator[] inserts a default entry for a missing key.
DispatcherAfterLookup(table, code) ==
    IF code \in DOMAIN table THEN table ELSE table @@ (code :> DefaultException)

DispatcherLookup(table, code) ==
    DispatcherAfterLookup(table, code)[code].exception

\* ------------------------------------------------------------ byte strings
\* Keys are the one-byte strings "a", "b", ...
KeyByte(i) == 96 + i
Keys == {<<KeyByte(i)>> : i \in 1..NumKeys}

\* Values: the empty string, "A", and the single byte 0xC3 (a UTF-8 lead byte,
\* which alone is not valid UTF-8).
Values == {<<>>, <<65>>, <<195>>}

Min(a, b) == IF a < b THEN a ELSE b

\* The engine's key order: bytewise lexicographic.
KeyLess(a, b) ==
    \E i \in 1..(Min(Len(a), Len(b)) + 1) :
        /\ \A j \in 1..(i - 1) : a[j] = b[j]
        /\ \/ i > Len(a) /\ i <= Len(b)
           \/ i <= Len(a) /\ i <= Len(b) /\ a[i] < b[i]

RECURSIVE SortedSeq(_)
SortedSeq(S) ==
    IF S = {} THEN <<>>
    ELSE LET least == CHOOSE x \in S : \A y \in S \ {x} : KeyLess(x, y)
         IN  <<least>> \o SortedSeq(S \ {least})


\* ------------------------------------------------------------- conversions
\* PyArg_ParseTuple "s*" on a bytes-like argument exposes the object's own
\* bytes and length through the buffer protocol; the host arguments here are
\* bytes objects, written as the byte sequence itself.

IsCont(b) == b >= 128 /\ b <= 191

\* Length of the UTF-8 sequence a lead byte announces; 0 for a byte that cannot
\* start one.
Utf8Need(c) ==
    IF c < 128 THEN 1
    ELSE IF c >= 194 /\ c <= 223 THEN 2
    ELSE IF c >= 224 /\ c <= 239 THEN 3
    ELSE IF c >= 240 /\ c <= 244 THEN 4
    ELSE 0

Utf8Valid(b, n) ==
    /\ n > 0
    /\ Len(b) >= n
    /\ \A j \in 2..n : IsCont(b[j])
    /\ (b[1] = 224 => b[2] >= 160)
    /\ (b[1] = 237 => b[2] <= 159)
    /\ (b[1] = 240 => b[2] >= 144)
    /\ (b[1] = 244 => b[2] <= 143)

Utf8CodePoint(b, n) ==
    IF n = 1 THEN b[1]
    ELSE IF n = 2 THEN (b[1] - 192) * 64 + (b[2] - 128)
    ELSE IF n = 3 THEN (b[1] - 224) * 4096 + (b[2] - 128) * 64 + (b[3] - 128)
    ELSE (b[1] - 240) * 262144 + (b[2] - 128) * 4096 + (b[3] - 128) * 64 + (b[4] - 128)

\* Strict UTF-8 decoding: the text's code points, or ok = FALSE.
RECURSIVE DecodeUTF8(_)
DecodeUTF8(b) ==
    IF b = <<>> THEN [ok |-> TRUE, text |-> <<>>]
    ELSE LET n == Utf8Need(b[1])
         IN  IF ~Utf8Valid(b, n) THEN [ok |-> FALSE, text |-> <<>>]
             ELSE LET rest == DecodeUTF8(SubSeq(b, n + 1, Len(b)))
                  IN  [ok |-> rest.ok,
                       text |-> IF rest.ok THEN <<Utf8CodePoint(b, n)>> \o rest.text
                                ELSE <<>>]

EncodeCodePoint(c) ==
    IF c < 128 THEN <<c>>
    ELSE IF c < 2048 THEN <<192 + (c \div 64), 128 + (c % 64)>>
    ELSE IF c < 65536
         THEN <<224 + (c \div 4096), 128 + ((c \div 64) % 64), 128 + (c % 64)>>
    ELSE <<240 + (c \div 262144), 128 + ((c \div 4096) % 64),
           128 + ((c \div 64) % 64), 128 + (c % 64)>>

\* The bytes of a host str (what reading it back as bytes gives).
RECURSIVE EncodeUTF8(_)
EncodeUTF8(t) ==
    IF t = <<>> THEN <<>> ELSE EncodeCodePoint(Head(t)) \o EncodeUTF8(Tail(t))

\* Host result objects.
NullResult == [kind |-> "NULL", val |-> 0]
PyNone == [kind |-> "None", val |-> 0]
PyBool_FromLong(x) == [kind |-> "bool", val |-> IF x THEN 1 ELSE 0]
PyStr(t) == [kind |-> "str", val |-> t]

\* A size_t, written in two parts because it exceeds TLC's integers:
\* lo is its low 31 bits, hi the bits above them (value = hi * 2^31 + lo).
SizeT(n) == [hi |-> 0, lo |-> n]

\* Py_BuildValue("i", cnt) with a size_t argument: the int read is the low 32
\* bits of the count, as a signed value.
BuildValue_i(n) ==
    [kind |-> "int",
     val |-> IF n.hi % 2 = 1 THEN n.lo - 2147483647 - 1 ELSE n.lo]

\* Py_BuildValue("s#", data, size): a str decoded from UTF-8, or NULL with
\* UnicodeDecodeError pending.
BuildValue_s(data) ==
    LET d == DecodeUTF8(data)
    IN  IF d.ok THEN [ret |-> PyStr(d.text), err |-> PyNULL]
        ELSE [ret |-> NullResult, err |-> PyExc_UnicodeDecodeError]

\* ------------------------------------------------------------------ views
\* A pointer into engine-owned memory is written by the bytes it points at.
NullPtr == [null |-> TRUE, at |-> <<>>]
PtrTo(bytes) == [null |-> FALSE, at |-> bytes]

\* A PmemkvValueBufferObject as a bridge fills it.
NewView(bytes) == [value |-> PtrTo(bytes), length |-> Len(bytes)]
InvalidView == [value |-> NullPtr, length |-> 0]

\* bf_getbuffer: the Py_buffer a reader of the view gets.
PmemkvValueBufferObject_getbuffer(obj) ==
    [buf |-> obj.value, len |-> obj.length, readonly |-> TRUE]

\* ------------------------------------------------------- the native engine
Upsert(st, k, v) == [x \in DOMAIN st \cup {k} |-> IF x = k THEN v ELSE st[x]]
Erase(st, k) == [x \in DOMAIN st \ {k} |-> st[x]]

InRange(kind, k, a, b) ==
    CASE kind = "all" -> TRUE
      [] kind = "above" -> KeyLess(a, k)
      [] kind = "below" -> KeyLess(k, a)
      [] OTHER -> KeyLess(a, k) /\ KeyLess(k, b)

\* The keys a range call visits, in the engine's order.
Matching(st, kind, a, b) ==
    SortedSeq({k \in DOMAIN st : InRange(kind, k, a, b)})

pmemkv_put(st, k, v) ==
    [status |-> PMEMKV_STATUS_OK, store |-> Upsert(st, k, v)]

pmemkv_remove(st, k) ==
    IF k \in DOMAIN st
    THEN [status |-> PMEMKV_STATUS_OK, store |-> Erase(st, k)]
    ELSE [status |-> PMEMKV_STATUS_NOT_FOUND, store |-> st]

pmemkv_exists(st, k) ==
    IF k \in DOMAIN st THEN PMEMKV_STATUS_OK ELSE PMEMKV_STATUS_NOT_FOUND

\* pmemkv_get: the status, and the values the callback is called with.
pmemkv_get(st, k) ==
    IF k \in DOMAIN st
    THEN [status |-> PMEMKV_STATUS_OK, delivered |-> <<st[k]>>]
    ELSE [status |-> PMEMKV_STATUS_NOT_FOUND, delivered |-> <<>>]

pmemkv_count(st, kind, a, b) == SizeT(Len(Matching(st, kind, a, b)))

\* Statuses with which a native call may fail instead of answering.
LookupFaults == AllStatuses \ {PMEMKV_STATUS_OK, PMEMKV_STATUS_NOT_FOUND}
Faults == AllStatuses \ {PMEMKV_STATUS_OK}


\* ------------------------------------------------------------------ state
VARIABLES
    pc,                   \* where the interpreter thread is
    ExceptionDispatcher,  \* the status -> Exception table
    PmemkvException,      \* the root exception object
    created,              \* the exception classes the host runtime was asked to create
    db,                   \* self->db: 0 is NULL, otherwise a native handle
    opened,               \* native handles pmemkv_open has produced so far
    closed,               \* the native handles passed to pmemkv_close, in call order
    store,                \* the entries of the engine instance db names: key -> value
    call,                 \* the operation in progress or just returned
    status,               \* the status the native call returned
    cnt,                  \* the count the native call wrote (size_t cnt)
    todo,                 \* keys the running native iteration has yet to visit
    stopped,              \* a bridge callback returned non-zero to the engine
    views,                \* the view objects handed to the host callable
    invoked,              \* the arguments of each host callable invocation
    err,                  \* the interpreter's error indicator
    ret                   \* the object the operation returned

vars == <<pc, ExceptionDispatcher, PmemkvException, created, db, opened, closed,
          store, call, status, cnt, todo, stopped, views, invoked, err, ret>>

NoKey == <<>>
NoStatus == PMEMKV_STATUS_OK - 1
NoCount == SizeT(0)
NoCall == [name |-> "none", bridge |-> "none", kind |-> "none",
           k1 |-> NoKey, k2 |-> NoKey, v |-> <<>>, db |-> 0]
Call(name, bridge, kind, k1, k2, v) ==
    [name |-> name, bridge |-> bridge, kind |-> kind,
     k1 |-> k1, k2 |-> k2, v |-> v, db |-> db]

Init ==
    /\ pc = "import"
    /\ ExceptionDispatcher = StaticDispatcher
    /\ PmemkvException = PyNULL
    /\ created = <<>>
    /\ db = 0
    /\ opened = 0
    /\ closed = <<>>
    /\ store = << >>
    /\ call = NoCall
    /\ status = NoStatus
    /\ cnt = NoCount
    /\ todo = <<>>
    /\ stopped = FALSE
    /\ views = <<>>
    /\ invoked = <<>>
    /\ err = PyNULL
    /\ ret = NullResult

\* ------------------------------------------------- module initialisation
\* PyInit__pmemkv. PyType_Ready or PyModule_Create failing returns NULL (the
\* import fails); a failing PyModule_AddObject reaches "throw;" with no
\* exception in flight, which terminates the process; otherwise the root
\* exception and every table entry without an exception object get one.
PyInit__pmemkv ==
    /\ pc = "import"
    /\ \E outcome \in {"ok", "no_module", "terminate"} :
        /\ pc' = CASE outcome = "ok" -> "idle"
                   [] outcome = "no_module" -> "no_module"
                   [] OTHER -> "crashed"
        /\ PmemkvException' = IF outcome = "no_module" THEN PyNULL
                              ELSE PmemkvExceptionName
        /\ ExceptionDispatcher' = IF outcome = "ok"
                                  THEN RegisterExceptions(ExceptionDispatcher)
                                  ELSE ExceptionDispatcher
        /\ created' = IF outcome = "no_module" THEN created
                      ELSE <<[name |-> PmemkvExceptionName, base |-> PyNULL]>> \o
                           (IF outcome = "ok"
                            THEN CreatedByLoop(ExceptionDispatcher,
                                               CodesOf(DOMAIN ExceptionDispatcher),
                                               PmemkvExceptionName)
                            ELSE <<>>)
    /\ UNCHANGED <<db, opened, closed, store, call, status, cnt, todo, stopped,
                   views, invoked, err, ret>>

\* ------------------------------------------------------ wrapper results
\* PyErr_SetString(ExceptionDispatcher[result].exception, ...); return NULL.
RaiseStatus(table, result) ==
    [ret |-> NullResult,
     err |-> DispatcherLookup(table, result),
     table |-> DispatcherAfterLookup(table, result)]

Returns(table, obj) == [ret |-> obj, err |-> PyNULL, table |-> table]

\* A faulty variant of pmemkv_NI_Put: the status is dropped and None returned.
PutResult_swallowsStatus(table, result) == Returns(table, PyNone)

\* pmemkv_NI_Put after the native call.
PutResult(table, result) ==
    IF result # PMEMKV_STATUS_OK THEN RaiseStatus(table, result)
    ELSE Returns(table, PyNone)

\* A faulty variant of pmemkv_NI_Exists: NOT_FOUND is not exempted from raising.
ExistsResult_raisesNotFound(table, result) ==
    IF result # PMEMKV_STATUS_OK THEN RaiseStatus(table, result)
    ELSE Returns(table, PyBool_FromLong(result = PMEMKV_STATUS_OK))

\* pmemkv_NI_Exists after the native call.
ExistsResult(table, result) ==
    IF result # PMEMKV_STATUS_OK /\ result # PMEMKV_STATUS_NOT_FOUND
    THEN RaiseStatus(table, result)
    ELSE Returns(table, PyBool_FromLong(result = PMEMKV_STATUS_OK))

\* A faulty variant of pmemkv_NI_Remove: the status itself is taken as the truth
\* value (PyBool_FromLong(result)).
RemoveResult_statusAsBool(table, result) ==
    IF result # PMEMKV_STATUS_OK /\ result # PMEMKV_STATUS_NOT_FOUND
    THEN RaiseStatus(table, result)
    ELSE Returns(table, PyBool_FromLong(result # 0))

\* pmemkv_NI_Remove after the native call.
RemoveResult(table, result) ==
    IF result # PMEMKV_STATUS_OK /\ result # PMEMKV_STATUS_NOT_FOUND
    THEN RaiseStatus(table, result)
    ELSE Returns(table, PyBool_FromLong(result = PMEMKV_STATUS_OK))

\* A faulty variant of the count operations: the status is built into the
\* result in place of the count.
CountResult_buildsStatus(table, result, n) ==
    IF result # PMEMKV_STATUS_OK THEN RaiseStatus(table, result)
    ELSE Returns(table, BuildValue_i(SizeT(result)))

\* pmemkv_NI_Count{All,Above,Below,Between} after the native call.
CountResult(table, result, n) ==
    IF result # PMEMKV_STATUS_OK THEN RaiseStatus(table, result)
    ELSE Returns(table, BuildValue_i(n))

\* The context of pmemkv_NI_GetString's lambda: initialised, and after the
\* engine has called the lambda with the value.
NewGetContext == [status |-> PMEMKV_STATUS_NOT_FOUND, value |-> <<>>]
GetStringCallback(cxt, v) ==
    [status |-> PMEMKV_STATUS_OK, value |-> cxt.value \o v]

\* pmemkv_NI_GetString after the native call.
GetStringResult(table, pending, result, cxt) ==
    IF pending # PyNULL
    THEN [ret |-> NullResult, err |-> pending, table |-> table]
    ELSE IF result # PMEMKV_STATUS_OK THEN RaiseStatus(table, result)
    ELSE IF cxt.status = PMEMKV_STATUS_OK
         THEN LET b == BuildValue_s(cxt.value)
              IN  [ret |-> b.ret, err |-> b.err, table |-> table]
    ELSE Returns(table, PyNone)

\* A faulty variant of the callback-taking operations: the status is looked at
\* before PyErr_Occurred().
CallbackOpResult_statusFirst(table, pending, result) ==
    IF result # PMEMKV_STATUS_OK THEN RaiseStatus(table, result)
    ELSE IF pending # PyNULL
         THEN [ret |-> NullResult, err |-> pending, table |-> table]
    ELSE Returns(table, PyNone)

\* A faulty variant of pmemkv_NI_Get: NOT_FOUND is treated as in exists and
\* remove and is not raised.
CallbackOpResult_notFoundQuiet(table, pending, result) ==
    IF pending # PyNULL
    THEN [ret |-> NullResult, err |-> pending, table |-> table]
    ELSE IF result # PMEMKV_STATUS_OK /\ result # PMEMKV_STATUS_NOT_FOUND
         THEN RaiseStatus(table, result)
    ELSE Returns(table, PyNone)

\* pmemkv_NI_Get and the eight range operations after the native call.
CallbackOpResult(table, pending, result) ==
    IF pending # PyNULL
    THEN [ret |-> NullResult, err |-> pending, table |-> table]
    ELSE IF result # PMEMKV_STATUS_OK THEN RaiseStatus(table, result)
    ELSE Returns(table, PyNone)

\* -------------------------------------------------------- action helpers
\* The operation returns to its host caller; n is what the native call wrote
\* to cnt.
Finish(c, st, newStore, res, n) ==
    /\ pc' = "returned"
    /\ call' = c
    /\ status' = st
    /\ cnt' = n
    /\ store' = newStore
    /\ ret' = res.ret
    /\ err' = res.err
    /\ ExceptionDispatcher' = res.table
    /\ UNCHANGED <<PmemkvException, created, db, opened, closed, todo, stopped, views, invoked>>

Complete(c, st, newStore, res) == Finish(c, st, newStore, res, NoCount)

\* The native call dereferences a NULL handle and the process dies.
Crash(c) ==
    /\ pc' = "crashed"
    /\ call' = c
    /\ UNCHANGED <<ExceptionDispatcher, PmemkvException, created, db, opened, closed, store,
                   status, cnt, todo, stopped, views, invoked, err, ret>>

\* ------------------------------------------------------------ lifecycle
\* A faulty variant of pmemkv_NI_Start: the status of pmemkv_config_from_json
\* and pmemkv_open is not looked at.
StartResult_ignoresStatus(table, rv) == Returns(table, PyNone)

\* pmemkv_NI_Start after pmemkv_config_from_json and pmemkv_open returned rv.
StartResult(table, rv) ==
    IF rv # PMEMKV_STATUS_OK THEN RaiseStatus(table, rv)
    ELSE Returns(table, PyNone)

\* pmemkv_NI_Start: pmemkv_config_new, pmemkv_config_from_json, pmemkv_open.
\* limit bounds the number of engine instances the run opens.
StartOp(limit) ==
    /\ LET c == Call("start", "none", "none", NoKey, NoKey, <<>>)
       IN
       \/ \* config == nullptr
          /\ Complete(c, NoStatus, store,
                      [ret |-> NullResult, err |-> PmemkvException,
                       table |-> ExceptionDispatcher])
       \/ \* pmemkv_config_from_json or pmemkv_open fails; self->db is not written
          \E rv \in Faults :
              Complete(c, rv, store, StartResult(ExceptionDispatcher, rv))
       \/ \* pmemkv_open writes a new handle to self->db, whatever it held
          /\ opened < limit
          /\ LET res == StartResult(ExceptionDispatcher, PMEMKV_STATUS_OK)
             IN  /\ ret' = res.ret
                 /\ err' = res.err
                 /\ ExceptionDispatcher' = res.table
          /\ pc' = "returned"
          /\ call' = c
          /\ status' = PMEMKV_STATUS_OK
          /\ cnt' = NoCount
          /\ opened' = opened + 1
          /\ db' = opened + 1
          /\ store' = << >>
          /\ UNCHANGED <<PmemkvException, created, closed, todo,
                         stopped, views, invoked>>

pmemkv_NI_Start ==
    /\ pc = "idle"
    /\ StartOp(MaxOpens)

\* A faulty variant of pmemkv_NI_Stop: pmemkv_close is called without testing
\* self->db.
StopHandle_closesUnchecked(h, closeCalls) ==
    [db |-> 0, closed |-> Append(closeCalls, h)]

\* self->db after pmemkv_NI_Stop, and the pmemkv_close calls made so far.
StopHandle(h, closeCalls) ==
    [db |-> 0, closed |-> IF h # 0 THEN Append(closeCalls, h) ELSE closeCalls]

pmemkv_NI_Stop ==
    /\ pc = "idle"
    /\ LET s == StopHandle(db, closed)
       IN  /\ db' = s.db
           /\ closed' = s.closed
    /\ store' = << >>
    /\ pc' = "returned"
    /\ call' = Call("stop", "none", "none", NoKey, NoKey, <<>>)
    /\ status' = NoStatus
    /\ cnt' = NoCount
    /\ ret' = PyNone
    /\ err' = PyNULL
    /\ UNCHANGED <<ExceptionDispatcher, PmemkvException, created, opened, todo, stopped,
                   views, invoked>>

\* Pmemkv_dealloc: stop, then free the wrapper.
Pmemkv_dealloc ==
    /\ pc = "idle"
    /\ LET s == StopHandle(db, closed)
       IN  /\ db' = s.db
           /\ closed' = s.closed
    /\ store' = << >>
    /\ pc' = "freed"
    /\ UNCHANGED <<ExceptionDispatcher, PmemkvException, created, opened, call, status, cnt,
                   todo, stopped, views, invoked, err, ret>>

\* The host caller takes the result (or handles the error) of the operation.
HostTakesResult ==
    /\ pc = "returned"
    /\ pc' = "idle"
    /\ call' = NoCall
    /\ status' = NoStatus
    /\ cnt' = NoCount
    /\ todo' = <<>>
    /\ stopped' = FALSE
    /\ views' = <<>>
    /\ invoked' = <<>>
    /\ err' = PyNULL
    /\ ret' = NullResult
    /\ UNCHANGED <<ExceptionDispatcher, PmemkvException, created, db, opened, closed, store>>


\* ------------------------------------------------- CRUD and count operations
\* A native call on a NULL handle is undefined: the process dies, or the call
\* comes back with some failure status.
NullHandleStatuses == Faults

pmemkv_NI_Put ==
    /\ pc = "idle"
    /\ \E k \in Keys, v \in Values :
        LET c == Call("put", "none", "none", k, NoKey, v)
        IN  IF db = 0
            THEN \/ Crash(c)
                 \/ \E s \in NullHandleStatuses :
                        Complete(c, s, store, PutResult(ExceptionDispatcher, s))
            ELSE \/ LET n == pmemkv_put(store, k, v)
                    IN  Complete(c, n.status, n.store,
                                 PutResult(ExceptionDispatcher, n.status))
                 \/ \E s \in Faults :
                        Complete(c, s, store, PutResult(ExceptionDispatcher, s))

pmemkv_NI_GetString ==
    /\ pc = "idle"
    /\ \E k \in Keys :
        LET c == Call("get_string", "lambda", "get", k, NoKey, <<>>)
        IN  IF db = 0
            THEN \/ Crash(c)
                 \/ \E s \in NullHandleStatuses :
                        Complete(c, s, store,
                                 GetStringResult(ExceptionDispatcher, err, s, NewGetContext))
            ELSE \/ \* pmemkv_get: the lambda runs once for a present key
                    LET n == pmemkv_get(store, k)
                        cxt == IF n.delivered # <<>>
                               THEN GetStringCallback(NewGetContext, n.delivered[1])
                               ELSE NewGetContext
                    IN  Complete(c, n.status, store,
                                 GetStringResult(ExceptionDispatcher, err, n.status, cxt))
                 \/ \E s \in LookupFaults :
                        Complete(c, s, store,
                                 GetStringResult(ExceptionDispatcher, err, s, NewGetContext))

pmemkv_NI_Exists ==
    /\ pc = "idle"
    /\ \E k \in Keys :
        LET c == Call("exists", "none", "none", k, NoKey, <<>>)
        IN  IF db = 0
            THEN \/ Crash(c)
                 \/ \E s \in NullHandleStatuses :
                        Complete(c, s, store, ExistsResult(ExceptionDispatcher, s))
            ELSE \/ LET result == pmemkv_exists(store, k)
                    IN  Complete(c, result, store,
                                 ExistsResult(ExceptionDispatcher, result))
                 \/ \E s \in LookupFaults :
                        Complete(c, s, store, ExistsResult(ExceptionDispatcher, s))

pmemkv_NI_Remove ==
    /\ pc = "idle"
    /\ \E k \in Keys :
        LET c == Call("remove", "none", "none", k, NoKey, <<>>)
        IN  IF db = 0
            THEN \/ Crash(c)
                 \/ \E s \in NullHandleStatuses :
                        Complete(c, s, store, RemoveResult(ExceptionDispatcher, s))
            ELSE \/ LET n == pmemkv_remove(store, k)
                    IN  Complete(c, n.status, n.store,
                                 RemoveResult(ExceptionDispatcher, n.status))
                 \/ \E s \in LookupFaults :
                        Complete(c, s, store, RemoveResult(ExceptionDispatcher, s))

\* The four count operations differ in the native function and its key
\* arguments only.
CountOp(name, kind, a, b) ==
    LET c == Call(name, "none", kind, a, b, <<>>)
    IN  IF db = 0
        THEN \/ Crash(c)
             \/ \E s \in NullHandleStatuses :
                    Complete(c, s, store, CountResult(ExceptionDispatcher, s, SizeT(0)))
        ELSE \/ LET n == pmemkv_count(store, kind, a, b)
                IN  Finish(c, PMEMKV_STATUS_OK, store,
                           CountResult(ExceptionDispatcher, PMEMKV_STATUS_OK, n), n)
             \/ \E s \in Faults :
                    Complete(c, s, store, CountResult(ExceptionDispatcher, s, SizeT(0)))

pmemkv_NI_CountAll ==
    /\ pc = "idle"
    /\ CountOp("count_all", "all", NoKey, NoKey)

pmemkv_NI_CountAbove ==
    /\ pc = "idle"
    /\ \E a \in Keys : CountOp("count_above", "above", a, NoKey)

pmemkv_NI_CountBelow ==
    /\ pc = "idle"
    /\ \E a \in Keys : CountOp("count_below", "below", a, NoKey)

pmemkv_NI_CountBetween ==
    /\ pc = "idle"
    /\ \E a \in Keys, b \in Keys : CountOp("count_between", "between", a, b)


\* ------------------------------------------------------------- the bridges
\* value_callback up to PyObject_CallObject: the view it builds and whether the
\* host callable gets called. alloc says which allocation, if any, fails.
value_callback_enter(bytes, alloc) ==
    IF alloc = "no_entry" \/ alloc = "no_args"
    THEN [called |-> FALSE, views |-> <<>>, err |-> PyExc_MemoryError]
    ELSE [called |-> TRUE, views |-> <<NewView(bytes)>>, err |-> PyNULL]

\* value_callback after PyObject_CallObject: Py_XDECREF of the result and of the
\* argument tuple; the view's fields are left as they are.
value_callback_leave(vws) == vws

\* A faulty variant of key_callback: the value is passed on in place of the key.
key_callback_enter_passesValue(key, value, alloc) == value_callback_enter(value, alloc)

\* key_callback: the key goes to value_callback, the value is not used.
key_callback_enter(key, value, alloc) == value_callback_enter(key, alloc)

\* A faulty variant of key_callback: it returns 0 without looking at
\* PyErr_Occurred().
key_callback_return_unchecked(pending) == 0

\* key_callback's return value.
key_callback_return(pending) == IF pending # PyNULL THEN 0 - 1 ELSE 0

\* A faulty variant of key_value_callback: value_buffer is put in slot 0 of
\* args and key_buffer in slot 1.
key_value_callback_enter_swapsArgs(key, value, alloc) ==
    IF alloc = "no_entry" \/ alloc = "no_args"
    THEN [called |-> FALSE, views |-> <<>>, err |-> PyExc_MemoryError]
    ELSE [called |-> TRUE, views |-> <<NewView(value), NewView(key)>>, err |-> PyNULL]

\* key_value_callback up to PyObject_CallObject: args is (key_buffer, value_buffer).
key_value_callback_enter(key, value, alloc) ==
    IF alloc = "no_entry" \/ alloc = "no_args"
    THEN [called |-> FALSE, views |-> <<>>, err |-> PyExc_MemoryError]
    ELSE [called |-> TRUE, views |-> <<NewView(key), NewView(value)>>, err |-> PyNULL]

\* A faulty variant of key_value_callback: only key_buffer is emptied.
key_value_callback_leave_keyOnly(vws) ==
    [i \in DOMAIN vws |-> IF i = Len(vws) - 1 THEN InvalidView ELSE vws[i]]

\* key_value_callback after PyObject_CallObject: both views are emptied.
key_value_callback_leave(vws) ==
    [i \in DOMAIN vws |-> IF i > Len(vws) - 2 THEN InvalidView ELSE vws[i]]

\* key_value_callback's return value.
key_value_callback_return(pending) == IF pending # PyNULL THEN 0 - 1 ELSE 0

BridgeEnter(bridge, key, value, alloc) ==
    CASE bridge = "value_callback" -> value_callback_enter(value, alloc)
      [] bridge = "key_callback" -> key_callback_enter(key, value, alloc)
      [] OTHER -> key_value_callback_enter(key, value, alloc)

BridgeLeave(bridge, vws) ==
    IF bridge = "key_value_callback" THEN key_value_callback_leave(vws)
    ELSE value_callback_leave(vws)

\* What the engine gets back: value_callback returns void.
BridgeReturn(bridge, pending) ==
    CASE bridge = "value_callback" -> 0
      [] bridge = "key_callback" -> key_callback_return(pending)
      [] OTHER -> key_value_callback_return(pending)

\* The bytes the host callable reads from a view while it runs.
ReadView(obj) ==
    LET b == PmemkvValueBufferObject_getbuffer(obj)
    IN  IF b.buf.null THEN <<>> ELSE SubSeq(b.buf.at, 1, b.len)

ReadViews(vws) == [i \in DOMAIN vws |-> ReadView(vws[i])]

\* --------------------------------------------- callback-taking operations
\* The wrapper enters the native call; the engine will visit `entries`.
EnterNative(c, entries) ==
    /\ pc' = "native"
    /\ call' = c
    /\ todo' = entries
    /\ stopped' = FALSE
    /\ UNCHANGED <<ExceptionDispatcher, PmemkvException, created, db, opened, closed, store,
                   status, cnt, views, invoked, err, ret>>

CallbackOp(c, entries) ==
    IF db = 0
    THEN \/ Crash(c)
         \/ EnterNative(c, <<>>)
    ELSE EnterNative(c, entries)

pmemkv_NI_Get ==
    /\ pc = "idle"
    /\ \E k \in Keys :
        CallbackOp(Call("get", "value_callback", "get", k, NoKey, <<>>),
                   IF k \in DOMAIN store THEN <<k>> ELSE <<>>)

pmemkv_NI_GetKeys ==
    /\ pc = "idle"
    /\ CallbackOp(Call("get_keys", "key_callback", "all", NoKey, NoKey, <<>>),
                  Matching(store, "all", NoKey, NoKey))

pmemkv_NI_GetKeysAbove ==
    /\ pc = "idle"
    /\ \E a \in Keys :
        CallbackOp(Call("get_keys_above", "key_callback", "above", a, NoKey, <<>>),
                   Matching(store, "above", a, NoKey))

pmemkv_NI_GetKeysBelow ==
    /\ pc = "idle"
    /\ \E a \in Keys :
        CallbackOp(Call("get_keys_below", "key_callback", "below", a, NoKey, <<>>),
                   Matching(store, "below", a, NoKey))

pmemkv_NI_GetKeysBetween ==
    /\ pc = "idle"
    /\ \E a \in Keys, b \in Keys :
        CallbackOp(Call("get_keys_between", "key_callback", "between", a, b, <<>>),
                   Matching(store, "between", a, b))

pmemkv_NI_GetAll ==
    /\ pc = "idle"
    /\ CallbackOp(Call("get_all", "key_value_callback", "all", NoKey, NoKey, <<>>),
                  Matching(store, "all", NoKey, NoKey))

pmemkv_NI_GetAbove ==
    /\ pc = "idle"
    /\ \E a \in Keys :
        CallbackOp(Call("get_above", "key_value_callback", "above", a, NoKey, <<>>),
                   Matching(store, "above", a, NoKey))

pmemkv_NI_GetBelow ==
    /\ pc = "idle"
    /\ \E a \in Keys :
        CallbackOp(Call("get_below", "key_value_callback", "below", a, NoKey, <<>>),
                   Matching(store, "below", a, NoKey))

pmemkv_NI_GetBetween ==
    /\ pc = "idle"
    /\ \E a \in Keys, b \in Keys :
        CallbackOp(Call("get_between", "key_value_callback", "between", a, b, <<>>),
                   Matching(store, "between", a, b))

\* The engine calls the bridge for the next entry. The bridge either calls the
\* host callable (control passes to the host) or fails to build its arguments
\* and returns to the engine at once.
NativeInvokesBridge ==
    /\ pc = "native"
    /\ ~stopped
    /\ todo # <<>>
    /\ \E alloc \in {"ok", "no_entry", "no_args"} :
        LET k == Head(todo)
            b == BridgeEnter(call.bridge, k, store[k], alloc)
        IN  IF b.called
            THEN /\ pc' = "host"
                 /\ views' = views \o b.views
                 /\ invoked' = Append(invoked, ReadViews(b.views))
                 /\ UNCHANGED <<err, todo, stopped>>
            ELSE /\ pc' = "native"
                 /\ err' = b.err
                 /\ todo' = Tail(todo)
                 /\ stopped' = (BridgeReturn(call.bridge, b.err) # 0)
                 /\ UNCHANGED <<views, invoked>>
    /\ UNCHANGED <<ExceptionDispatcher, PmemkvException, created, db, opened, closed, store,
                   call, status, cnt, ret>>

\* PyObject_CallObject comes back; the bridge finishes and returns to the engine.
BridgeFinishes(pending) ==
    /\ pc' = "native"
    /\ err' = pending
    /\ views' = BridgeLeave(call.bridge, views)
    /\ todo' = Tail(todo)
    /\ stopped' = (BridgeReturn(call.bridge, pending) # 0)
    /\ UNCHANGED <<ExceptionDispatcher, PmemkvException, created, db, opened, closed, store,
                   call, status, cnt, invoked, ret>>

HostCallableReturns ==
    /\ pc = "host"
    /\ BridgeFinishes(err)

HostCallableRaises ==
    /\ pc = "host"
    /\ BridgeFinishes(HostFailure)

\* The status of a native call that ran to its end.
NaturalStatus ==
    IF stopped THEN PMEMKV_STATUS_STOPPED_BY_CB
    ELSE IF call.kind = "get" THEN pmemkv_get(store, call.k1).status
    ELSE PMEMKV_STATUS_OK

\* The native call returns: at its end, after a callback stopped it, or with a
\* failure of its own; the wrapper then builds the operation's result.
NativeReturns ==
    /\ pc = "native"
    /\ \E s \in AllStatuses :
        /\ \/ /\ call.db # 0
              /\ todo = <<>> \/ stopped
              /\ s = NaturalStatus
           \/ s \in (IF call.kind = "get" THEN LookupFaults ELSE Faults)
        /\ Complete(call, s, store, CallbackOpResult(ExceptionDispatcher, err, s))

Next ==
    \/ PyInit__pmemkv
    \/ pmemkv_NI_Start
    \/ pmemkv_NI_Stop
    \/ Pmemkv_dealloc
    \/ HostTakesResult
    \/ pmemkv_NI_Put
    \/ pmemkv_NI_GetString
    \/ pmemkv_NI_Exists
    \/ pmemkv_NI_Remove
    \/ pmemkv_NI_CountAll
    \/ pmemkv_NI_CountAbove
    \/ pmemkv_NI_CountBelow
    \/ pmemkv_NI_CountBetween
    \/ pmemkv_NI_Get
    \/ pmemkv_NI_GetKeys
    \/ pmemkv_NI_GetKeysAbove
    \/ pmemkv_NI_GetKeysBelow
    \/ pmemkv_NI_GetKeysBetween
    \/ pmemkv_NI_GetAll
    \/ pmemkv_NI_GetAbove
    \/ pmemkv_NI_GetBelow
    \/ pmemkv_NI_GetBetween
    \/ NativeInvokesBridge
    \/ HostCallableReturns
    \/ HostCallableRaises
    \/ NativeReturns

Spec == Init /\ [][Next]_vars


\* ============================================================== properties
Returned(name) == pc = "returned" /\ call.name = name

\* The exception kind module initialisation registers for a table status.
RegisteredKind(code) ==
    IF StaticDispatcher[code].exception # PyNULL
    THEN StaticDispatcher[code].exception
    ELSE StaticDispatcher[code].exception_name

PyTrue == PyBool_FromLong(TRUE)
PyFalse == PyBool_FromLong(FALSE)

\* Every view whose bridge invocation has come back to the engine (all of them
\* unless the host callable is running, and then all but those of the running
\* invocation) is empty: pointer NULL, length 0.
FinishedViews ==
    IF pc = "host"
    THEN SubSeq(views, 1, Len(views) - (IF call.bridge = "key_value_callback" THEN 2 ELSE 1))
    ELSE views

FinishedViewsEmpty ==
    \A i \in DOMAIN FinishedViews :
        LET b == PmemkvValueBufferObject_getbuffer(FinishedViews[i])
        IN  b.buf = NullPtr /\ b.len = 0

\* C1: a view handed to the host callable by the value-only bridge (get with a
\* callback, and through key_callback the get_keys* operations) has pointer NULL
\* and length 0 once that bridge invocation has returned to the engine, whether
\* the callable returned or raised.
C1_ValueBridgeViewEmptied ==
    call.bridge \in {"value_callback", "key_callback"} => FinishedViewsEmpty

\* C2: both views the key+value bridge handed to the host callable have pointer
\* NULL and length 0 once that bridge invocation has returned to the engine,
\* whether the callable returned or raised.
C2_KeyValueViewsEmptied ==
    call.bridge = "key_value_callback" => FinishedViewsEmpty

\* C2 witness: a get_all whose callable returned on the first entry and raised
\* on the second; the four views of both invocations are back with the engine.
C2_Witness ==
    /\ pc = "native"
    /\ call.name = "get_all"
    /\ Len(views) = 4
    /\ Len(invoked) = 2
    /\ invoked[2][2] # <<>>
    /\ err = HostFailure

\* C3: in a range iteration, an error pending when a bridge invocation returns
\* makes that invocation return non-zero (the engine is told to stop), the host
\* callable never runs while an error is pending, and when the callable raised
\* on the i-th matching entry it was invoked exactly i times: the invocations
\* and the entries not visited add up to the matching entries.
C3_RaiseStopsIteration ==
    call.bridge \in {"key_callback", "key_value_callback"} =>
        /\ (pc = "native" /\ err # PyNULL => stopped)
        /\ (err # PyNULL => pc # "host")
        /\ (err = HostFailure =>
                Len(invoked) + Len(todo)
                    = Len(Matching(store, call.kind, call.k1, call.k2)))

\* C3 witness: get_all over three entries whose callable raised on the second:
\* two invocations, one entry never visited, the call has returned.
C3_Witness ==
    /\ Returned("get_all")
    /\ Cardinality(DOMAIN store) = 3
    /\ err = HostFailure
    /\ Len(invoked) = 2
    /\ Len(todo) = 1

\* C4: when the native call of a callback-taking operation returns while the
\* host callable's failure is pending, the operation fails with that failure,
\* whatever status the native call returned.
C4_HostFailurePrecedence ==
    [][(pc = "native" /\ err = HostFailure /\ pc' = "returned")
        => (err' = HostFailure /\ ret' = NullResult)]_vars

\* C4 witness: a range call stopped by the raising callable returned
\* STOPPED_BY_CB and the caller has the callable's failure, not StoppedByCallback.
C4_Witness ==
    /\ pc = "returned"
    /\ call.bridge = "key_value_callback"
    /\ status = PMEMKV_STATUS_STOPPED_BY_CB
    /\ Len(invoked) >= 1
    /\ err = HostFailure

\* C5: get_string on an open engine returns None without an error when the
\* native get returns NOT_FOUND, returns the value when it returns OK, and raises
\* for every other status.
C5_GetStringOptional ==
    (Returned("get_string") /\ call.db # 0) =>
        /\ (status = PMEMKV_STATUS_NOT_FOUND => ret.kind = "None" /\ err = PyNULL)
        /\ (status = PMEMKV_STATUS_OK =>
                /\ err = PyNULL
                /\ ret.kind = "str"
                /\ EncodeUTF8(ret.val) = store[call.k1])
        /\ (status \in TableCodes \ {PMEMKV_STATUS_NOT_FOUND} =>
                ret.kind = "NULL" /\ err = RegisteredKind(status))

\* C6: exists and remove return True for OK and False for NOT_FOUND with no
\* error, and raise the registered kind for every other table status; for a key
\* that is not present both return False unless the native call itself failed.
C6_ExistsRemoveBoolean ==
    [][(pc' = "returned" /\ call'.name \in {"exists", "remove"}) =>
        /\ (status' = PMEMKV_STATUS_OK => ret' = PyTrue /\ err' = PyNULL)
        /\ (status' = PMEMKV_STATUS_NOT_FOUND => ret' = PyFalse /\ err' = PyNULL)
        /\ (status' \in TableCodes \ {PMEMKV_STATUS_NOT_FOUND} =>
                ret' = NullResult /\ err' = RegisteredKind(status'))
        /\ (db # 0 /\ call'.k1 \notin DOMAIN store
                /\ status' \in {PMEMKV_STATUS_OK, PMEMKV_STATUS_NOT_FOUND}
                => ret' = PyFalse /\ err' = PyNULL)]_vars

\* C6 witness: exists on a key that is not present returned False, no error.
C6_Witness ==
    /\ Returned("exists")
    /\ call.db # 0
    /\ call.k1 \notin DOMAIN store
    /\ status = PMEMKV_STATUS_NOT_FOUND
    /\ ret = PyFalse
    /\ err = PyNULL

\* C7: put(k, v) stores exactly v under k, and a get_string(k) that finds the key
\* returns exactly the bytes stored under it (the last v put), with no error.
C7_PutGetRoundTrip ==
    /\ (Returned("put") /\ status = PMEMKV_STATUS_OK =>
            call.k1 \in DOMAIN store /\ store[call.k1] = call.v)
    /\ (Returned("get_string") /\ call.db # 0 /\ status = PMEMKV_STATUS_OK =>
            /\ err = PyNULL
            /\ ret.kind = "str"
            /\ EncodeUTF8(ret.val) = store[call.k1])

\* C8: remove of a present key returns True and leaves the key absent; an absent
\* key stays absent until a put of that key; exists and remove of an absent key
\* return False (the native call not failing).
C8_RemoveThenAbsent ==
    [][/\ (pc' = "returned" /\ call'.name = "remove" /\ db # 0
             /\ call'.k1 \in DOMAIN store /\ status' = PMEMKV_STATUS_OK)
          => (ret' = PyTrue /\ err' = PyNULL /\ call'.k1 \notin DOMAIN store')
       /\ \A k \in Keys :
            (k \notin DOMAIN store /\ k \in DOMAIN store')
                => (call'.name = "put" /\ call'.k1 = k)
       /\ (pc' = "returned" /\ call'.name \in {"exists", "remove"} /\ db # 0
             /\ call'.k1 \notin DOMAIN store
             /\ status' \in {PMEMKV_STATUS_OK, PMEMKV_STATUS_NOT_FOUND})
          => (ret' = PyFalse /\ err' = PyNULL /\ store' = store)]_vars

\* C8 witness: remove of a present key has returned True and the key is gone.
C8_Witness ==
    /\ Returned("remove")
    /\ status = PMEMKV_STATUS_OK
    /\ ret = PyTrue
    /\ call.k1 \notin DOMAIN store
    /\ store # << >>

\* The number of entries strictly between a and b.
EntriesBetween(a, b) ==
    Cardinality({k \in DOMAIN store : KeyLess(a, k) /\ KeyLess(k, b)})

DeliveredKeys == [i \in DOMAIN invoked |-> invoked[i][1]]

\* C10: get_keys_between(a, b, cb) hands cb one argument per invocation, a
\* present key strictly between a and b, no key twice, and when it succeeds the
\* keys delivered are exactly the entries strictly between a and b.
C10_ExclusiveBounds ==
    call.name = "get_keys_between" =>
        /\ \A i \in DOMAIN invoked :
            /\ Len(invoked[i]) = 1
            /\ DeliveredKeys[i] \in DOMAIN store
            /\ KeyLess(call.k1, DeliveredKeys[i])
            /\ KeyLess(DeliveredKeys[i], call.k2)
        /\ \A i, j \in DOMAIN invoked : i # j => DeliveredKeys[i] # DeliveredKeys[j]
        /\ (pc = "returned" /\ status = PMEMKV_STATUS_OK /\ err = PyNULL =>
                {DeliveredKeys[i] : i \in DOMAIN invoked}
                    = {k \in DOMAIN store : KeyLess(call.k1, k) /\ KeyLess(k, call.k2)})

\* C10 witness: with "a" < "b" < "c" all present, get_keys_between("a", "c", cb)
\* has returned after one invocation, with "b".
C10_Witness ==
    /\ Returned("get_keys_between")
    /\ {<<KeyByte(1)>>, <<KeyByte(2)>>, <<KeyByte(3)>>} \subseteq DOMAIN store
    /\ call.k1 = <<KeyByte(1)>>
    /\ call.k2 = <<KeyByte(3)>>
    /\ status = PMEMKV_STATUS_OK
    /\ err = PyNULL
    /\ invoked = << <<(<<KeyByte(2)>>)>> >>

\* A step that is a whole call of stop, and one that is the wrapper's teardown.
StopStep == pc = "idle" /\ pc' = "returned" /\ call'.name = "stop"
DeallocStep == pc = "idle" /\ pc' = "freed"

\* C11: stop and teardown leave self->db NULL; stop returns None with no error
\* pending; when self->db is already NULL (a second stop, a teardown after
\* stop, a stop on a never-opened wrapper) no pmemkv_close call is made, and
\* when it holds a handle exactly one call is made, on that handle.
C11_IdempotentClose ==
    [][ /\ (StopStep \/ DeallocStep) => db' = 0
        /\ StopStep => (err' = PyNULL /\ ret' = PyNone)
        /\ ((StopStep \/ DeallocStep) /\ db = 0) => closed' = closed
        /\ ((StopStep \/ DeallocStep) /\ db # 0) => closed' = Append(closed, db)
      ]_vars

\* A stop that found self->db NULL after an earlier stop had closed a handle.
C11_Witness ==
    /\ Returned("stop")
    /\ call.db = 0
    /\ closed # <<>>
    /\ db = 0
    /\ err = PyNULL
    /\ ret = PyNone

\* The CRUD, count and range operations.
EngineOps ==
    {"put", "get", "get_string", "exists", "remove",
     "count_all", "count_above", "count_below", "count_between",
     "get_keys", "get_keys_above", "get_keys_below", "get_keys_between",
     "get_all", "get_above", "get_below", "get_between"}

\* C12: an operation called while self->db is NULL (the wrapper is Unopened or
\* Closed) ends with an error raised and without a native call: control never
\* enters the engine with the NULL handle, the process does not die in it, and
\* no native status comes back.
C12_UseAfterCloseFailsSafely ==
    (call.name \in EngineOps /\ call.db = 0) =>
        /\ pc = "returned"
        /\ status = NoStatus
        /\ err # PyNULL
        /\ ret = NullResult

\* A step that is a whole call of start.
StartStep == pc = "idle" /\ pc' = "returned" /\ call'.name = "start"

\* C13: a start on a wrapper whose self->db is NULL that gets a non-OK table
\* status from pmemkv_config_from_json or pmemkv_open raises the kind
\* registered for that status and leaves self->db NULL with no handle opened;
\* self->db stays NULL until a start succeeds, and a stop that finds it NULL
\* makes no pmemkv_close call.
C13_FailedOpen ==
    [][ /\ (StartStep /\ db = 0 /\ status' \in TableCodes) =>
              /\ err' = RegisteredKind(status')
              /\ ret' = NullResult
              /\ db' = 0
              /\ opened' = opened
              /\ closed' = closed
        /\ (db = 0 /\ db' # 0) => (StartStep /\ status' = PMEMKV_STATUS_OK)
        /\ (StopStep /\ db = 0 /\ opened = 0) => (closed' = <<>> /\ db' = 0)
      ]_vars

\* A start on an Unopened wrapper that failed with a table status.
C13_Witness ==
    /\ Returned("start")
    /\ call.db = 0
    /\ status \in TableCodes
    /\ err = RegisteredKind(status)
    /\ ret = NullResult
    /\ db = 0
    /\ opened = 0

\* The native call of the operation handed back a status that is not OK and is
\* not a key of the static table.
UnknownStatusReturned ==
    status \in AllStatuses \ (TableCodes \cup {PMEMKV_STATUS_OK})

\* C14: a status that is not a key of the table never gets an exception
\* identity from the dispatcher: no descriptor is made for it, and an operation
\* whose native call handed back such a status comes back to the host only when
\* the dispatcher was not asked (an error was pending already).
C14_UnknownStatusFailsLoudly ==
    /\ DOMAIN ExceptionDispatcher \subseteq TableCodes
    /\ (pc = "returned" /\ UnknownStatusReturned) => err # PyNULL

\* The three bridges the engine calls back through.
Bridges == {"value_callback", "key_callback", "key_value_callback"}

\* The entries the native call of the current operation visits, in the
\* engine's order, and how many bridge invocations it has made so far.
CallEntries ==
    IF call.kind = "get"
    THEN (IF call.k1 \in DOMAIN store THEN <<call.k1>> ELSE <<>>)
    ELSE Matching(store, call.kind, call.k1, call.k2)

NativeInvocations ==
    Len(CallEntries) - Len(todo) + (IF pc = "host" THEN 1 ELSE 0)

\* A callback of the operation failed: the host callable raised, or a bridge
\* invocation ended before it called the host callable.
CallbackFailed ==
    \/ err = HostFailure
    \/ call.bridge \in Bridges /\ Len(invoked) < NativeInvocations

MaxCountHi == 2

ReportedCounts ==
    [hi : 0..MaxCountHi, lo : {0, 1, 2, 2147483646, 2147483647}]

CountOpReports(name, kind, a, b) ==
    /\ db # 0
    /\ \E n \in ReportedCounts :
        Finish(Call(name, "none", kind, a, b, <<>>), PMEMKV_STATUS_OK, store,
               CountResult(ExceptionDispatcher, PMEMKV_STATUS_OK, n), n)

CountAllReports ==
    /\ pc = "idle"
    /\ CountOpReports("count_all", "all", NoKey, NoKey)

CountAboveReports ==
    /\ pc = "idle"
    /\ \E a \in Keys : CountOpReports("count_above", "above", a, NoKey)

CountBelowReports ==
    /\ pc = "idle"
    /\ \E a \in Keys : CountOpReports("count_below", "below", a, NoKey)

CountBetweenReports ==
    /\ pc = "idle"
    /\ \E a \in Keys, b \in Keys : CountOpReports("count_between", "between", a, b)

NextCount ==
    \/ PyInit__pmemkv
    \/ pmemkv_NI_Start
    \/ pmemkv_NI_Stop
    \/ HostTakesResult
    \/ CountAllReports
    \/ CountAboveReports
    \/ CountBelowReports
    \/ CountBetweenReports

SpecCount == Init /\ [][NextCount]_vars

CountOps == {"count_all", "count_above", "count_below", "count_between"}

\* The host integer v (a signed 32-bit value) is the number the size_t n holds.
IntIsSizeT(v, n) == n.hi = 0 /\ n.lo = v

\* C16: a count operation that got OK from the native call returns a
\* non-negative integer equal to the count the native call wrote, whatever
\* that size_t count is.
C16_CountIsReported ==
    (pc = "returned" /\ call.name \in CountOps /\ status = PMEMKV_STATUS_OK) =>
        /\ ret.kind = "int"
        /\ ret.val >= 0
        /\ IntIsSizeT(ret.val, cnt)

\* ===================================================== wrapper lifecycle
\* start, stop and teardown alone, with start free to succeed up to
\* MaxHandles times on the one wrapper.
MaxHandles == 2

pmemkv_NI_StartRepeated ==
    /\ pc = "idle"
    /\ StartOp(MaxHandles)

NextLifecycle ==
    \/ PyInit__pmemkv
    \/ pmemkv_NI_StartRepeated
    \/ pmemkv_NI_Stop
    \/ Pmemkv_dealloc
    \/ HostTakesResult

SpecLifecycle == Init /\ [][NextLifecycle]_vars

\* How many pmemkv_close calls were made on handle h.
CloseCalls(h) == Cardinality({i \in DOMAIN closed : closed[i] = h})

\* C17: no handle pmemkv_open produced is passed to pmemkv_close twice, and
\* once the wrapper is torn down each of them has been passed to it once.
C17_HandlesClosedOnce ==
    /\ \A h \in 1..opened : CloseCalls(h) <= 1
    /\ pc = "freed" => \A h \in 1..opened : CloseCalls(h) = 1

\* The bytes the host callable is to read from its arguments when the engine
\* presents entry k to the bridge of the current operation.
ExpectedArgs(k) ==
    CASE call.bridge = "value_callback" -> <<store[k]>>
      [] call.bridge = "key_callback" -> <<k>>
      [] OTHER -> <<k, store[k]>>

\* C18: during and after a callback-taking operation on an open engine the
\* host callable's invocations are, in order, the engine's bridge invocations:
\* the i-th host invocation carries the key (and value) of the i-th entry the
\* engine presented; there is one host invocation per bridge invocation, but
\* for a last bridge invocation that failed before calling the callable; and
\* while the callable runs, its invocation is the one the engine is waiting on.
C18_OneToOneInOrder ==
    (call.bridge \in Bridges /\ call.db # 0) =>
        /\ \A i \in DOMAIN invoked :
              /\ i <= Len(CallEntries)
              /\ invoked[i] = ExpectedArgs(CallEntries[i])
        /\ \/ Len(invoked) = NativeInvocations
           \/ /\ Len(invoked) = NativeInvocations - 1
              /\ err = PyExc_MemoryError
              /\ pc # "host"
        /\ pc = "host" =>
              /\ todo # <<>>
              /\ invoked[Len(invoked)] = ExpectedArgs(Head(todo))

\* get_all has come back after the callable was invoked for at least two
\* entries with different keys.
C18_Witness ==
    /\ Returned("get_all")
    /\ call.db # 0
    /\ err = PyNULL
    /\ Len(invoked) >= 2
    /\ Len(invoked) = Len(CallEntries)
    /\ invoked[1][1] # invoked[2][1]
    /\ invoked[1][1] = CallEntries[1]

\* C19: get(key, callback) on an open engine. When the native get hands back
\* NOT_FOUND the callable has not been invoked and the operation raises
\* KeyError, the kind the table holds for NOT_FOUND. When it hands back OK and
\* the bridge built its view, the callable was invoked exactly once and read
\* the stored value; the operation then returns None, or NULL with the
\* callable's own failure when it raised.
C19_GetCallbackForm ==
    (Returned("get") /\ call.db # 0) =>
        /\ status = PMEMKV_STATUS_NOT_FOUND =>
              /\ invoked = <<>>
              /\ err = PyExc_KeyError
              /\ err = ExceptionDispatcher[PMEMKV_STATUS_NOT_FOUND].exception
              /\ ret = NullResult
        /\ (status = PMEMKV_STATUS_OK /\ err # PyExc_MemoryError) =>
              /\ call.k1 \in DOMAIN store
              /\ invoked = <<<<store[call.k1]>>>>
              /\ err \in {PyNULL, HostFailure}
              /\ err = PyNULL => ret = PyNone
              /\ err = HostFailure => ret = NullResult
        /\ Len(invoked) <= 1

\* get on an absent key has raised KeyError without a callback.
C19_Witness ==
    /\ Returned("get")
    /\ call.db # 0
    /\ call.k1 \notin DOMAIN store
    /\ status = PMEMKV_STATUS_NOT_FOUND
    /\ invoked = <<>>
    /\ err = PyExc_KeyError

\* Module initialisation has succeeded.
Initialised ==
    /\ pc \notin {"import", "no_module"}
    /\ ~(pc = "crashed" /\ call = NoCall)

\* The table codes whose static entry has no exception object of its own.
DynamicCodes ==
    TableCodes \ {PMEMKV_STATUS_NOT_FOUND, PMEMKV_STATUS_OUT_OF_MEMORY}

\* The positions in the log of created classes that carry a given name.
CreationsOf(name) == {i \in DOMAIN created : created[i].name = name}

\* C20: once module initialisation has succeeded, and in every state after it,
\* each of the ten table codes has a non-NULL exception object; NOT_FOUND has
\* KeyError and OUT_OF_MEMORY has MemoryError; each of the other eight has a
\* kind of its own, different from the others', created once, with the root
\* exception as its base; the root was created once; and nothing else was
\* ever created.
C20_KindsRegistered ==
    Initialised =>
        /\ TableCodes \subseteq DOMAIN ExceptionDispatcher
        /\ \A c \in TableCodes : ExceptionDispatcher[c].exception # PyNULL
        /\ ExceptionDispatcher[PMEMKV_STATUS_NOT_FOUND].exception = PyExc_KeyError
        /\ ExceptionDispatcher[PMEMKV_STATUS_OUT_OF_MEMORY].exception = PyExc_MemoryError
        /\ PmemkvException # PyNULL
        /\ Cardinality(CreationsOf(PmemkvException)) = 1
        /\ \A c \in DynamicCodes :
              LET kind == ExceptionDispatcher[c].exception
              IN  /\ kind = StaticDispatcher[c].exception_name
                  /\ kind \notin {PyExc_KeyError, PyExc_MemoryError, PmemkvException}
                  /\ \A d \in DynamicCodes \ {c} :
                        ExceptionDispatcher[d].exception # kind
                  /\ Cardinality(CreationsOf(kind)) = 1
                  /\ \A i \in CreationsOf(kind) : created[i].base = PmemkvException
        /\ Len(created) = Cardinality(DynamicCodes) + 1

\* Module initialisation has succeeded and no engine has been opened yet.
C20_Witness ==
    /\ pc = "idle"
    /\ call = NoCall
    /\ opened = 0
    /\ DOMAIN ExceptionDispatcher = TableCodes
    /\ Len(created) = 9
    /\ ExceptionDispatcher[PMEMKV_STATUS_UNKNOWN_ERROR].exception = "pmemkv_NI.UnknownError"
    /\ ExceptionDispatcher[PMEMKV_STATUS_NOT_FOUND].exception = PyExc_KeyError

\* C21: once module initialisation is over, no step of any operation adds,
\* removes or changes an entry of the status table, whatever status the
\* native call hands back.
C21_TableImmutable ==
    [][ pc # "import" => ExceptionDispatcher' = ExceptionDispatcher ]_vars

\* ============================================ stop from a host callable
\* The host callable, while the engine waits in a bridge, may call stop on the
\* wrapper whose operation it was called from: pmemkv_NI_Stop runs as it does
\* anywhere else and returns None to the callable, which goes on running.
HostCallableCallsStop ==
    /\ pc = "host"
    /\ LET s == StopHandle(db, closed)
       IN  /\ db' = s.db
           /\ closed' = s.closed
    /\ UNCHANGED <<pc, ExceptionDispatcher, PmemkvException, created, opened, store,
                   call, status, cnt, todo, stopped, views, invoked, err, ret>>

\* The handle the native call in progress was given has been passed to
\* pmemkv_close.
RunsOnClosedHandle ==
    /\ pc \in {"native", "host"}
    /\ \E i \in DOMAIN closed : closed[i] = call.db

\* A native call that goes on after its engine instance was released reads
\* released memory: the process may die there. (It may as well find the
\* memory as it was and go on, or return with some status: those are the
\* steps of the engine on an open handle.)
NativeFaultsOnClosedHandle ==
    /\ pc = "native"
    /\ RunsOnClosedHandle
    /\ pc' = "crashed"
    /\ UNCHANGED <<ExceptionDispatcher, PmemkvException, created, db, opened, closed,
                   store, call, status, cnt, todo, stopped, views, invoked, err, ret>>

NextReentrant ==
    \/ PyInit__pmemkv
    \/ pmemkv_NI_Start
    \/ pmemkv_NI_Stop
    \/ HostTakesResult
    \/ pmemkv_NI_Put
    \/ pmemkv_NI_Get
    \/ pmemkv_NI_GetKeys
    \/ pmemkv_NI_GetAll
    \/ NativeInvokesBridge
    \/ HostCallableReturns
    \/ HostCallableRaises
    \/ HostCallableCallsStop
    \/ NativeFaultsOnClosedHandle
    \/ NativeReturns

SpecReentrant == Init /\ [][NextReentrant]_vars

\* C22: while a native call is in progress (the engine is running, or waits
\* in a bridge for the host callable) the handle it was given has not been
\* passed to pmemkv_close.
C22_NoCloseDuringNativeCall == ~RunsOnClosedHandle

====
